---- MODULE Spec2Model ----
(***************************************************************************)
(* Model of src/server.js: the CWLarkAPI singleton (cached app token,      *)
(* generic record fetch, HOD query) and the POST /get_hod request handler. *)
(*                                                                         *)
(* Node runs every handler on one thread; a handler gives up control only  *)
(* at an await of an upstream call (axios.post / axios.get).  Each action  *)
(* below is one such run-to-completion step of one request.                *)
(*                                                                         *)
(* Spec          the server: concurrent requests, the token cache, time    *)
(* SpecConstruct the server with further constructions of the client       *)
(* SpecFilter    the arguments a department endpoint hands to getRecords   *)
(* SpecCipher    the response envelope, as the design describes it         *)
(***************************************************************************)
EXTENDS Integers, Sequences, FiniteSets, TLC

\* ---------------------------------------------------------------- bounds
NumReq == 2             \* concurrent / successive inbound requests
MaxTicks == 2           \* number of clock advances in a behaviour
StartTime == 1700000000 \* Math.floor(Date.now() / 1000) when the server starts
MaxDeptLen == 3         \* longest department string of a request
MaxConstructions == 2   \* constructor runs, the one at module load included
MaxPlainLen == 33       \* longest plaintext, in bytes

\* ------------------------------------------------------ program constants
RefreshAfter == 3000    \* getToken: refresh when older than 3000 seconds
Timeout == 10           \* axios timeout: 10000 ms
TTL == 3600             \* "Token expires after 1 hour"
BlockSize == 16         \* cipher block, bytes
IVLen == 16             \* initialization vector, bytes
KeyLen == 32            \* derived key, bytes

Reqs == 1..NumReq
Deltas == {1, Timeout, RefreshAfter}

\* -------------------------------------------------------- token values
\* this.token is null (constructor), undefined (response body without the
\* app_access_token field) or a token string.  A token string is identified
\* by the auth call that produced it; iss is the time upstream issued it.
Null == [kind |-> "null", id |-> 0, iss |-> 0]
Undefined == [kind |-> "undefined", id |-> 0, iss |-> 0]
TokenString(k, t) == [kind |-> "string", id |-> k, iss |-> t]

\* ------------------------------------------------ upstream auth replies
\* "token"    2xx, body carries app_access_token
\* "nofield"  2xx, body is an object without app_access_token
\* "nullbody" 2xx, body is JSON null (response.data[...] throws in the try)
\* "error"    timeout, network error or non-2xx status (axios rejects)
AuthReplies == {"token", "nofield", "nullbody", "error"}

\* --------------------------------------------- upstream record replies
\* status: "2xx", or "error" (network error, timeout, non-2xx: axios rejects)
\* top:    response.data is "null", "empty" (no body: the empty string) or "obj"
\* data:   response.data.data is "absent", "null" or "obj"
\* items:  response.data.data.items is "absent", "null", "falsy" (0, ""),
\*         "nonlist" (a truthy value that is no array) or "list"
\* list:   the items when items = "list" (each item shown by its fields.HOD)
\* has_more: the pagination marker of the reply
Reply(s, t, d, i, l, m) ==
    [status |-> s, top |-> t, data |-> d, items |-> i, list |-> l, has_more |-> m]

ItemLists == {<<>>, <<"Alice", "Bob">>, <<"Bob", "Alice", "Bob">>}

RecordReplies ==
    {Reply("error", "null", "absent", "absent", <<>>, FALSE),
     Reply("2xx", "null", "absent", "absent", <<>>, FALSE),
     Reply("2xx", "empty", "absent", "absent", <<>>, FALSE),
     Reply("2xx", "obj", "absent", "absent", <<>>, FALSE),
     Reply("2xx", "obj", "null", "absent", <<>>, FALSE),
     Reply("2xx", "obj", "obj", "absent", <<>>, FALSE),
     Reply("2xx", "obj", "obj", "null", <<>>, FALSE),
     Reply("2xx", "obj", "obj", "falsy", <<>>, FALSE),
     Reply("2xx", "obj", "obj", "nonlist", <<>>, FALSE)}
    \cup {Reply("2xx", "obj", "obj", "list", l, m) : l \in ItemLists, m \in BOOLEAN}

NoReply == Reply("none", "null", "absent", "absent", <<>>, FALSE)

\* what getRecords hands back: a list, a value that is no list, or a throw
Returned(k, l) == [kind |-> k, list |-> l]
NoRecords == Returned("none", <<>>)

\* the handler's HTTP answer
Response(s, c, m, o, h) ==
    [status |-> s, code |-> c, msg |-> m, options |-> o, hasMore |-> h]
NoResponse == Response(0, -1, "none", <<>>, FALSE)

\* request body: linkage_params.department is absent, or a string (shown as
\* its characters: a letter, a double quote, an operator character)
Chars == {"S", "\"", "="}
Strings(n) == UNION {[1..k -> Chars] : k \in 0..n}
Absent == [present |-> FALSE, text |-> <<>>]
Dept(s) == [present |-> TRUE, text |-> s]
Departments == {Absent} \cup {Dept(s) : s \in Strings(MaxDeptLen)}
\* one department of each kind the parameter check tells apart
SomeDepartments == {Absent, Dept(<<>>), Dept(<<"S">>)}

VARIABLES
    now,          \* wall clock, seconds
    ticks,        \* clock advances so far
    token,        \* CWLarkAPI.token
    tokenExpiry,  \* CWLarkAPI.tokenExpiry
    tokenWriter,  \* auth call whose continuation last wrote token (0: constructor)
    expiryWriter, \* auth call whose continuation last wrote tokenExpiry
    authCalls,    \* upstream auth calls issued so far
    pc,           \* per request: "idle", "auth", "query", "done", "closed"
    currentTime,  \* per request: getToken's local currentTime
    callStart,    \* per request: when its pending upstream call was sent
    refreshId,    \* per request: the auth call it issued (0: none)
    seen,         \* per request: the cache [token, tokenExpiry] getToken found
    authReply,    \* per request: the auth reply it got ("none" before)
    got,          \* per request: what getToken returned to getRecords
    gotAt,        \* per request: when getToken returned
    queries,      \* per request: upstream list-queries issued
    bearer,       \* per request: the token in the query's Authorization header
    reply,        \* per request: the record reply it got
    records,      \* per request: what getRecords returned
    response,     \* per request: the HTTP answer
    asked,        \* per request: its department was "absent", "empty" or "given"
    instance,     \* CWLarkAPI._instance: the object it holds (0: unset)
    objects,      \* CWLarkAPI objects whose fields a constructor run has set
    lastNew,      \* the object the latest new CWLarkAPI() yielded
    constructions, \* constructor runs so far
    route,        \* query construction: the endpoint called
    dept,         \* query construction: the request's department
    stage,        \* query construction: "off", "received", "rejected", "sent"
    filters,      \* query construction: the filter parameter, as characters
    fieldNames,   \* query construction: the field whose name is sent as field_names
    plain,        \* envelope: the plaintext bytes
    pass,         \* envelope: the passphrase
    envelope,     \* envelope: the encoded output
    cstage        \* envelope: "off", "input", "failed", "done"

cache == <<token, tokenExpiry, tokenWriter, expiryWriter>>
clock == <<now, ticks>>
authVars == <<authCalls, currentTime, refreshId, seen, authReply, got, gotAt>>
locals == <<currentTime, callStart, refreshId, seen, authReply, got, gotAt,
            queries, bearer, reply, records, response, asked>>
queryVars == <<queries, bearer, reply, records>>
vars == <<now, ticks, token, tokenExpiry, tokenWriter, expiryWriter, authCalls,
          pc, currentTime, callStart, refreshId, seen, authReply, got, gotAt,
          queries, bearer, reply, records, response, asked,
          instance, objects, lastNew, constructions,
          route, dept, stage, filters, fieldNames, plain, pass, envelope, cstage>>
singleton == <<instance, objects, lastNew, constructions>>
filterVars == <<route, dept, stage, filters, fieldNames>>
cipherVars == <<plain, pass, envelope, cstage>>
side == <<singleton, filterVars, cipherVars>>

\* a request that has not run yet: its locals and its record of upstream traffic
Blank ==
    /\ currentTime = [p \in Reqs |-> 0]
    /\ callStart = [p \in Reqs |-> 0]
    /\ refreshId = [p \in Reqs |-> 0]
    /\ seen = [p \in Reqs |-> [token |-> Null, tokenExpiry |-> 0]]
    /\ authReply = [p \in Reqs |-> "none"]
    /\ got = [p \in Reqs |-> Null]
    /\ gotAt = [p \in Reqs |-> 0]
    /\ queries = [p \in Reqs |-> 0]
    /\ bearer = [p \in Reqs |-> Null]
    /\ reply = [p \in Reqs |-> NoReply]
    /\ records = [p \in Reqs |-> NoRecords]
    /\ response = [p \in Reqs |-> NoResponse]
    /\ asked = [p \in Reqs |-> "none"]

\* no query is being put together
FilterOff ==
    /\ route = "none"
    /\ dept = Absent
    /\ stage = "off"
    /\ filters = <<>>
    /\ fieldNames = "none"

\* no envelope is being made
CipherOff ==
    /\ plain = <<>>
    /\ pass = ""
    /\ envelope = <<>>
    /\ cstage = "off"

\* constructor (lines 39-50) and module load (line 231)
InitServer ==
    /\ now = StartTime
    /\ ticks = 0
    /\ token = Null
    /\ tokenExpiry = 0
    /\ tokenWriter = 0
    /\ expiryWriter = 0
    /\ authCalls = 0
    /\ pc = [p \in Reqs |-> "idle"]
    /\ Blank
    /\ instance = 1
    /\ objects = 1
    /\ lastNew = 1
    /\ constructions = 1

Init == InitServer /\ FilterOff /\ CipherOff

\* res.json / res.status(500).json ends the synchronous run that computed the
\* answer: no other handler code runs between the two
NoneAnswering == \A q \in Reqs : pc[q] # "done"

\* requests are numbered in their order of arrival
Arrived(q) == IF q \in Reqs THEN pc[q] # "idle" ELSE TRUE

\* a refresh condition that already fires at an age of exactly 3000 seconds
NeedsRefreshAtMargin(ct, expiry) == ct - expiry >= RefreshAfter

\* getToken, line 82: the refresh condition
NeedsRefresh(ct, expiry) == ct - expiry > RefreshAfter

\* a query that takes this.token as it was when the request came in
SendQueryEarlyToken(p, t) ==
    /\ got' = [got EXCEPT ![p] = t]
    /\ gotAt' = [gotAt EXCEPT ![p] = now]
    /\ bearer' = [bearer EXCEPT ![p] = seen[p].token]
    /\ queries' = [queries EXCEPT ![p] = @ + 1]
    /\ callStart' = [callStart EXCEPT ![p] = now]
    /\ pc' = [pc EXCEPT ![p] = "query"]

\* getRecords, lines 100-111: with the token in hand, send the one list-query
SendQuery(p, t) ==
    /\ got' = [got EXCEPT ![p] = t]
    /\ gotAt' = [gotAt EXCEPT ![p] = now]
    /\ bearer' = [bearer EXCEPT ![p] = t]
    /\ queries' = [queries EXCEPT ![p] = @ + 1]
    /\ callStart' = [callStart EXCEPT ![p] = now]
    /\ pc' = [pc EXCEPT ![p] = "query"]

\* handler catch block, lines 310-313
Failed == Response(500, 1, "failed", <<>>, FALSE)
\* handler parameter check, lines 290-292
ParameterError == Response(200, 1, "Parameter error!", <<>>, FALSE)

\* a parameter check that lets the empty string through
MissingOnlyAbsent(department) == ~department.present

\* handler, line 290: !department
Missing(department) == ~department.present \/ department.text = <<>>

\* what the request body held, as the handler's check sees it
Asked(department) ==
    IF ~department.present THEN "absent"
    ELSE IF department.text = <<>> THEN "empty" ELSE "given"

\* POST /get_hod up to its first upstream call: parameter check, getHOD,
\* getRecords, getToken (lines 287-293, 144-150, 99-100, 79-83, 56-67)
Request(p, department) ==
    /\ pc[p] = "idle"
    /\ Arrived(p - 1)
    /\ NoneAnswering
    /\ asked' = [asked EXCEPT ![p] = Asked(department)]
    /\ IF Missing(department)
       THEN /\ pc' = [pc EXCEPT ![p] = "done"]
            /\ response' = [response EXCEPT ![p] = ParameterError]
            /\ UNCHANGED <<cache, clock, authVars, queryVars, callStart>>
       ELSE /\ currentTime' = [currentTime EXCEPT ![p] = now]
            /\ seen' = [seen EXCEPT ![p] = [token |-> token, tokenExpiry |-> tokenExpiry]]
            /\ IF NeedsRefresh(now, tokenExpiry)
               THEN /\ authCalls' = authCalls + 1
                    /\ refreshId' = [refreshId EXCEPT ![p] = authCalls + 1]
                    /\ callStart' = [callStart EXCEPT ![p] = now]
                    /\ pc' = [pc EXCEPT ![p] = "auth"]
                    /\ UNCHANGED <<got, gotAt, queryVars>>
               ELSE /\ SendQuery(p, token)
                    /\ UNCHANGED <<authCalls, refreshId, reply, records>>
            /\ UNCHANGED <<cache, clock, authReply, response>>
    /\ UNCHANGED side

\* _getAppToken, lines 66-72: the value it returns, or a throw
GetAppToken(p, r, iss) ==
    CASE r = "token" -> [ok |-> TRUE, value |-> TokenString(refreshId[p], iss)]
      [] r = "nofield" -> [ok |-> TRUE, value |-> Undefined]
      [] OTHER -> [ok |-> FALSE, value |-> Null]

\* stores that stamp the credential with the time the reply came in
StoreCredentialAtReply(p, value) ==
    /\ token' = value
    /\ tokenWriter' = refreshId[p]
    /\ tokenExpiry' = now
    /\ expiryWriter' = refreshId[p]

\* a store of the token alone, the timestamp left for later
StoreTokenOnly(p, value) ==
    /\ token' = value
    /\ tokenWriter' = refreshId[p]
    /\ UNCHANGED <<tokenExpiry, expiryWriter>>

\* getToken, lines 83-84: the two stores after the await
StoreCredential(p, value) ==
    /\ token' = value
    /\ tokenWriter' = refreshId[p]
    /\ tokenExpiry' = currentTime[p]
    /\ expiryWriter' = refreshId[p]

\* the auth reply arrives: _getAppToken returns or throws, getToken stores
\* and returns, getRecords sends its query (lines 67-72, 83-86, 100-111);
\* a throw runs through getRecords and getHOD to the handler's catch
AuthReturn(p, r, iss) ==
    /\ pc[p] = "auth"
    /\ NoneAnswering
    /\ authReply' = [authReply EXCEPT ![p] = r]
    /\ LET res == GetAppToken(p, r, iss) IN
       IF res.ok
       THEN /\ StoreCredential(p, res.value)
            /\ SendQuery(p, res.value)
            /\ UNCHANGED <<reply, records, response>>
       ELSE /\ pc' = [pc EXCEPT ![p] = "done"]
            /\ response' = [response EXCEPT ![p] = Failed]
            /\ UNCHANGED <<cache, got, gotAt, queryVars, callStart>>
    /\ UNCHANGED <<clock, authCalls, currentTime, refreshId, seen, asked, side>>

\* a normalisation that answers a failed query with an empty list
GetRecordsSwallow(r) ==
    IF r.status # "2xx" \/ r.top # "obj" \/ r.data # "obj" THEN Returned("list", <<>>)
    ELSE IF r.items \in {"absent", "null", "falsy"} THEN Returned("list", <<>>)
    ELSE IF r.items = "nonlist" THEN Returned("nonlist", <<>>)
    ELSE Returned("list", r.list)

\* getRecords, lines 110-120: normalisation of the record reply
GetRecords(r) ==
    IF r.status # "2xx" \/ r.top = "null" THEN Returned("throw", <<>>)
    ELSE IF r.top = "empty" \/ r.data # "obj" THEN Returned("list", <<>>)
    ELSE IF r.items \in {"absent", "null", "falsy"} THEN Returned("list", <<>>)
    ELSE IF r.items = "nonlist" THEN Returned("nonlist", <<>>)
    ELSE Returned("list", r.list)

\* options numbered from one
OptionsOneBased(list) == [i \in 1..Len(list) |-> [id |-> i, value |-> list[i]]]

\* handler, lines 299-303: options in upstream order, ids by index
Options(list) == [i \in 1..Len(list) |-> [id |-> i - 1, value |-> list[i]]]

\* getHOD's map and the handler's answer (lines 152-154, 293-313)
Answer(rec) ==
    IF rec.kind = "list"
    THEN Response(200, 0, "success!", Options(rec.list), FALSE)
    ELSE Failed

\* the record reply arrives: getRecords returns or throws, getHOD maps,
\* the handler answers
QueryReturn(p, r) ==
    /\ pc[p] = "query"
    /\ NoneAnswering
    /\ reply' = [reply EXCEPT ![p] = r]
    /\ records' = [records EXCEPT ![p] = GetRecords(r)]
    /\ response' = [response EXCEPT ![p] = Answer(GetRecords(r))]
    /\ pc' = [pc EXCEPT ![p] = "done"]
    /\ UNCHANGED <<cache, clock, authVars, queries, bearer, callStart, asked, side>>

\* the answer is sent and the request is over; its locals are gone
Finish(p) ==
    /\ pc[p] = "done"
    /\ pc' = [pc EXCEPT ![p] = "closed"]
    /\ currentTime' = [currentTime EXCEPT ![p] = 0]
    /\ callStart' = [callStart EXCEPT ![p] = 0]
    /\ refreshId' = [refreshId EXCEPT ![p] = 0]
    /\ seen' = [seen EXCEPT ![p] = [token |-> Null, tokenExpiry |-> 0]]
    /\ authReply' = [authReply EXCEPT ![p] = "none"]
    /\ got' = [got EXCEPT ![p] = Null]
    /\ gotAt' = [gotAt EXCEPT ![p] = 0]
    /\ queries' = [queries EXCEPT ![p] = 0]
    /\ bearer' = [bearer EXCEPT ![p] = Null]
    /\ reply' = [reply EXCEPT ![p] = NoReply]
    /\ records' = [records EXCEPT ![p] = NoRecords]
    /\ response' = [response EXCEPT ![p] = NoResponse]
    /\ asked' = [asked EXCEPT ![p] = "none"]
    /\ UNCHANGED <<cache, clock, authCalls, side>>

\* time passes; a pending upstream call ends within its timeout
Tick(d) ==
    /\ ticks < MaxTicks
    /\ NoneAnswering
    /\ \A p \in Reqs : pc[p] \in {"auth", "query"} => now + d - callStart[p] <= Timeout
    /\ now' = now + d
    /\ ticks' = ticks + 1
    /\ UNCHANGED <<cache, authVars, queryVars, pc, callStart, response, asked, side>>

Next ==
    \/ \E p \in Reqs, department \in SomeDepartments : Request(p, department)
    \/ \E p \in Reqs, r \in AuthReplies :
          \E iss \in {callStart[p], now} : AuthReturn(p, r, iss)
    \/ \E p \in Reqs, r \in RecordReplies : QueryReturn(p, r)
    \/ \E p \in Reqs : Finish(p)
    \/ \E d \in Deltas : Tick(d)

Spec == Init /\ [][Next]_vars

\* ------------------------------------------------- the singleton constructor

\* a constructor without the early return: every new yields a fresh object
ConstructFresh ==
    /\ constructions < MaxConstructions
    /\ constructions' = constructions + 1
    /\ objects' = objects + 1
    /\ instance' = objects + 1
    /\ lastNew' = objects + 1
    /\ UNCHANGED <<cache, clock, authCalls, pc, locals, filterVars, cipherVars>>

\* new CWLarkAPI(), lines 39-50: the early return hands out _instance; only
\* a first run sets the fields of a new object (token = null, tokenExpiry = 0)
\* and stores it in _instance.  The handlers go on using larkApi, object 1.
Construct ==
    /\ constructions < MaxConstructions
    /\ constructions' = constructions + 1
    /\ IF instance # 0
       THEN /\ lastNew' = instance
            /\ UNCHANGED <<instance, objects>>
       ELSE /\ objects' = objects + 1
            /\ instance' = objects + 1
            /\ lastNew' = objects + 1
    /\ UNCHANGED <<cache, clock, authCalls, pc, locals, filterVars, cipherVars>>

\* the server at one instant, with further constructions of the client
NextConstruct ==
    \/ \E p \in Reqs, department \in SomeDepartments : Request(p, department)
    \/ \E p \in Reqs, r \in AuthReplies : AuthReturn(p, r, now)
    \/ \E p \in Reqs, r \in RecordReplies : QueryReturn(p, r)
    \/ \E p \in Reqs : Finish(p)
    \/ Construct

SpecConstruct == Init /\ [][NextConstruct]_vars

\* ------------------------------------------------- query construction

serverVars == <<cache, clock, authCalls, pc, locals, singleton>>

\* the five endpoints that filter by department, and the field each asks for
\* (lines 148, 166, 184, 202, 220)
Routes == {"get_hod", "get_hod_limit", "get_2nd_tier", "get_2nd_tier_limit", "get_ceo"}
FieldOf(r) ==
    CASE r = "get_hod" -> "HOD"
      [] r = "get_hod_limit" -> "HODLimit"
      [] r = "get_2nd_tier" -> "2ndTier"
      [] r = "get_2nd_tier_limit" -> "2ndTierLimit"
      [] OTHER -> "CEO"

\* lines 147, 165, 183, 201, 219: the template literal
\* `CurrentValue.[Department/ProductLine] = "${department}"`
Quote == "\""
FilterHead == "CurrentValue.[Department/ProductLine] = "
Filter(text) == <<FilterHead, Quote>> \o text \o <<Quote>>

InitFilter ==
    /\ InitServer
    /\ CipherOff
    /\ route \in Routes
    /\ dept \in Departments
    /\ stage = "received"
    /\ filters = <<>>
    /\ fieldNames = "none"

\* a department endpoint from the parameter check to the arguments it hands
\* to getRecords (lines 289-293, 147-150)
BuildQuery ==
    /\ stage = "received"
    /\ IF Missing(dept)
       THEN /\ stage' = "rejected"
            /\ UNCHANGED <<filters, fieldNames>>
       ELSE /\ stage' = "sent"
            /\ filters' = Filter(dept.text)
            /\ fieldNames' = FieldOf(route)
    /\ UNCHANGED <<serverVars, route, dept, cipherVars>>

NextFilter == BuildQuery

SpecFilter == InitFilter /\ [][NextFilter]_vars

\* ------------------------------------------------- envelope cipher
\* encrypt(plaintext, passphrase) as the design describes it: key = Hash256 of
\* the passphrase, a fresh 16-byte IV, CBC with block padding, base64 of
\* IV || ciphertext.  Bytes are shown by what they are, not by their value.

Byte(t, n) == [t |-> t, n |-> n]
Bytes(t, len) == [i \in 1..len |-> Byte(t, i)]
Passphrases == {"", "secret", "other"}
IVSeeds == {1, 2}

\* Hash256: 32 bytes whatever the passphrase
DeriveKey(k) == [of |-> k, bytes |-> Bytes("key", KeyLen)]

\* 16 random bytes, a different draw for every seed
NewIV(seed) == [i \in 1..IVLen |-> Byte("iv", seed * IVLen + i)]

\* padding that adds nothing to a plaintext of whole blocks
PadLenZero(n) == (BlockSize - (n % BlockSize)) % BlockSize

\* block padding: 1 to 16 bytes, so that it can be removed unambiguously
PadLen(n) == BlockSize - (n % BlockSize)
Pad(p) == p \o [i \in 1..PadLen(Len(p)) |-> Byte("pad", PadLen(Len(p)))]

\* CBC: one ciphertext byte for every byte of the padded plaintext
Cbc(key, iv, padded) == Bytes("ct", Len(padded))

\* base64: every group of up to three bytes becomes one group of four characters
Base64Encode(b) ==
    [g \in 1..((Len(b) + 2) \div 3) |->
        SubSeq(b, 3 * g - 2, IF 3 * g <= Len(b) THEN 3 * g ELSE Len(b))]
RECURSIVE Base64Decode(_)
Base64Decode(text) ==
    IF text = <<>> THEN <<>> ELSE Head(text) \o Base64Decode(Tail(text))

InitCipher ==
    /\ InitServer
    /\ FilterOff
    /\ plain \in {Bytes("pt", n) : n \in 0..MaxPlainLen}
    /\ pass \in Passphrases
    /\ envelope = <<>>
    /\ cstage = "input"

\* encrypt: an empty passphrase is rejected, anything else is enveloped
Encrypt(seed) ==
    /\ cstage = "input"
    /\ IF pass = ""
       THEN /\ cstage' = "failed"
            /\ UNCHANGED envelope
       ELSE /\ cstage' = "done"
            /\ envelope' =
                  Base64Encode(NewIV(seed) \o Cbc(DeriveKey(pass), NewIV(seed), Pad(plain)))
    /\ UNCHANGED <<serverVars, filterVars, plain, pass>>

NextCipher == \E seed \in IVSeeds : Encrypt(seed)

SpecCipher == InitCipher /\ [][NextCipher]_vars

\* ------------------------------------------------------------ properties

\* getToken has been entered by request p and p has not answered yet
InGetRecords(p) == pc[p] \in {"auth", "query"}

\* C1: single-flight refresh. Callers that are inside getToken together, each
\* having found the cache stale before any refresh completed, share one
\* upstream auth call.
C1_SingleFlight ==
    \A p, q \in Reqs :
        pc[p] = "auth" /\ pc[q] = "auth" => refreshId[p] = refreshId[q]

\* C2: cache hit. A getToken call made while now - tokenExpiry <= 3000 returns
\* the stored token, issues no upstream auth call and leaves token and
\* tokenExpiry as they were.
C2_CacheHit ==
    [][\A p \in Reqs :
          (pc[p] = "idle" /\ pc'[p] \in {"auth", "query"}
              /\ now - tokenExpiry <= RefreshAfter)
          => /\ pc'[p] = "query"
             /\ authCalls' = authCalls
             /\ got'[p] = token
             /\ token' = token
             /\ tokenExpiry' = tokenExpiry]_vars

\* a caller served from a cache that is exactly 3000 seconds old
C2_Witness ==
    \E p \in Reqs :
        /\ pc[p] = "query"
        /\ refreshId[p] = 0
        /\ got[p].kind = "string"
        /\ currentTime[p] - seen[p].tokenExpiry = RefreshAfter

\* C3: refresh policy. getToken issues an upstream auth call exactly when no
\* credential is stored or the stored one is older than 3000 seconds, and a
\* successful refresh stores the new token stamped with the time read at the
\* start of the call.
C3_RefreshPolicy ==
    \A p \in Reqs :
        /\ InGetRecords(p) =>
              ((refreshId[p] # 0) <=>
                  (seen[p].token = Null
                      \/ currentTime[p] - seen[p].tokenExpiry > RefreshAfter))
        /\ (pc[p] = "query" /\ authReply[p] = "token" /\ tokenWriter = refreshId[p]) =>
              /\ token = got[p]
              /\ token.id = refreshId[p]
              /\ tokenExpiry = currentTime[p]

\* a refresh whose reply came in later than the call started, stored
C3_Witness ==
    \E p \in Reqs :
        /\ pc[p] = "query"
        /\ authReply[p] = "token"
        /\ tokenWriter = refreshId[p]
        /\ gotAt[p] > currentTime[p]

\* C4: a failed refresh (timeout, network error, non-2xx) leaves the cache as
\* it was before the call, and the next getToken call refreshes again.
C4_FailedRefreshUntouched ==
    \A p \in Reqs :
        (pc[p] = "done" /\ authReply[p] = "error") =>
            /\ response[p] = Failed
            /\ token = seen[p].token
            /\ tokenExpiry = seen[p].tokenExpiry
            /\ NeedsRefresh(now, tokenExpiry)

\* C5: no empty credential is cached or returned. A stored tokenExpiry other
\* than the initial 0 goes with a token string, getToken hands out token
\* strings only, and an auth reply without the token field ends in a failure.
C5_NoEmptyCredential ==
    /\ tokenExpiry # 0 => token.kind = "string"
    /\ \A p \in Reqs :
          /\ queries[p] > 0 => got[p].kind = "string"
          /\ authReply[p] = "nofield" => (pc[p] = "done" /\ response[p] = Failed)

\* C6: no stale token served as fresh. The stored tokenExpiry is never later
\* than the time upstream issued the stored token, and every token string
\* getToken returns was issued less than the TTL before the return.
C6_NoStaleToken ==
    /\ token.kind = "string" => tokenExpiry <= token.iss
    /\ \A p \in Reqs :
          (queries[p] > 0 /\ got[p].kind = "string") =>
              /\ got[p].iss <= gotAt[p]
              /\ gotAt[p] - got[p].iss < TTL

\* two overlapping refreshes have both come back with a token
C6_Witness ==
    \E p, q \in Reqs :
        /\ p # q
        /\ pc[p] = "query" /\ authReply[p] = "token"
        /\ pc[q] = "query" /\ authReply[q] = "token"
        /\ currentTime[q] < gotAt[p]

\* C7: no half-written credential. In every state the stored token and the
\* stored tokenExpiry were written by the same refresh.
C7_NoTornCredential == tokenWriter = expiryWriter

\* a refresh has stored its credential while another caller waits in getToken
C7_Witness ==
    \E p \in Reqs :
        /\ pc[p] = "auth"
        /\ tokenWriter # 0
        /\ tokenWriter # refreshId[p]

\* the records container of a 2xx reply is absent or malformed
NoContainer(r) ==
    r.status = "2xx" /\ (r.top # "obj" \/ r.data # "obj" \/ r.items # "list")

\* C8: lenient normalisation. Every 2xx reply whose records container is
\* absent or malformed makes getRecords return the empty list and raise
\* nothing.
C8_LenientNormalisation ==
    \A p \in Reqs :
        (pc[p] = "done" /\ NoContainer(reply[p])) => records[p] = Returned("list", <<>>)

\* C9: an upstream query failure is never turned into success. A failed
\* query makes getRecords throw and the handler answer 500 with code 1, and
\* an answer with code 0 comes only after a query that succeeded.
C9_FailureNotSuccess ==
    \A p \in Reqs :
        /\ (pc[p] = "done" /\ reply[p].status = "error") =>
              /\ records[p] = Returned("throw", <<>>)
              /\ response[p].status = 500
              /\ response[p].code = 1
        /\ response[p].code = 0 => (queries[p] = 1 /\ reply[p].status = "2xx")

\* a request whose query failed has answered
C9_Witness ==
    \E p \in Reqs :
        pc[p] = "done" /\ reply[p].status = "error" /\ response[p] = Failed

\* C10: one query per fetch, after the token. A fetch sends at most one
\* list-query, with the token getToken returned to it; none when getToken
\* threw; and exactly one has been sent when a record reply, failed or
\* announcing more pages, has been handled.
C10_OneQueryAfterToken ==
    \A p \in Reqs :
        /\ queries[p] <= 1
        /\ queries[p] = 1 =>
              (bearer[p] = got[p] /\ authReply[p] \in {"none", "token", "nofield"})
        /\ authReply[p] \in {"error", "nullbody"} => queries[p] = 0
        /\ pc[p] = "auth" => queries[p] = 0
        /\ reply[p] # NoReply => queries[p] = 1

\* a fetch that refreshed the token has handled a reply announcing more pages
C10_Witness ==
    \E p \in Reqs :
        /\ pc[p] = "done"
        /\ authReply[p] = "token"
        /\ bearer[p].kind = "string"
        /\ reply[p].has_more
        /\ queries[p] = 1

\* C11: truthful hasMore. The hasMore of a success answer is true exactly
\* when the upstream record reply announced further pages.
C11_TruthfulHasMore ==
    \A p \in Reqs :
        (pc[p] = "done" /\ response[p].code = 0) =>
            (response[p].hasMore <=> reply[p].has_more)

\* C12: order-preserving option formatting. A success answer to n upstream
\* items has exactly n options, option i (0-based) with id options_id_i and
\* the requested field of the i-th item as value.
C12_OptionsInOrder ==
    \A p \in Reqs :
        (pc[p] = "done" /\ response[p].code = 0) =>
            /\ Len(response[p].options) = Len(reply[p].list)
            /\ \A i \in 1..Len(reply[p].list) :
                  /\ response[p].options[i].id = i - 1
                  /\ response[p].options[i].value = reply[p].list[i]

\* a success answer built from three items, one value occurring twice
C12_Witness ==
    \E p \in Reqs :
        /\ pc[p] = "done"
        /\ response[p].code = 0
        /\ Len(reply[p].list) = 3
        /\ Len(response[p].options) = 3

\* C14: no terminal state. Whatever happened before, a getToken call that is
\* served from the cache or by a correct upstream auth reply returns a token
\* string.
C14_AlwaysRecovers ==
    \A p \in Reqs :
        (pc[p] = "query" /\ authReply[p] \in {"none", "token"}) =>
            got[p].kind = "string"

\* C18: monotonic issuance timestamp. The stored tokenExpiry never decreases.
C18_MonotonicExpiry == [][tokenExpiry' >= tokenExpiry]_vars

\* C17: a missing filter short-circuits. A request whose department is absent
\* or empty is answered code 1 "Parameter error!" with no options, issues no
\* upstream auth call and no record query, and leaves the cache as it was.
C17_MissingFilterShortCircuits ==
    [][\A p \in Reqs :
          (pc[p] = "idle" /\ asked'[p] \in {"absent", "empty"})
          => /\ pc'[p] = "done"
             /\ response'[p] = Response(200, 1, "Parameter error!", <<>>, FALSE)
             /\ authCalls' = authCalls
             /\ queries'[p] = 0
             /\ token' = token
             /\ tokenExpiry' = tokenExpiry]_vars

\* a request with an empty department has been answered while a token is cached
C17_Witness ==
    \E p \in Reqs :
        /\ pc[p] = "done"
        /\ asked[p] = "empty"
        /\ response[p] = ParameterError
        /\ token.kind = "string"

\* C15: one credential cache per process. Every construction of the client
\* yields the instance the handlers use, creates no second object and leaves
\* the cached token and tokenExpiry as they were.
C15_OneCachePerProcess ==
    [][constructions' # constructions
          => /\ lastNew' = 1
             /\ instance' = 1
             /\ objects' = 1
             /\ token' = token
             /\ tokenExpiry' = tokenExpiry]_vars

\* the client was constructed again while a token was cached and a request
\* was waiting for upstream
C15_Witness ==
    /\ constructions = 2
    /\ lastNew = 1
    /\ token.kind = "string"
    /\ \E p \in Reqs : pc[p] \in {"auth", "query"}

\* where the string literal that opens at position 2 of filter f ends for a
\* reader of the filter: at the first double quote after it
LiteralEnd(f) == CHOOSE i \in 3..Len(f) : f[i] = Quote /\ \A j \in 3..(i - 1) : f[j] # Quote

\* C13: safe filter embedding. The filter sent upstream is one equality on
\* Department/ProductLine whose string literal holds exactly the department:
\* the literal ends with the last character of the filter, no quote of the
\* department ends it earlier.
C13_SafeFilterEmbedding ==
    stage = "sent" =>
        /\ filters[1] = FilterHead
        /\ filters[2] = Quote
        /\ LiteralEnd(filters) = Len(filters)
        /\ SubSeq(filters, 3, LiteralEnd(filters) - 1) = dept.text

\* C16: envelope layout. Base64-decoding an envelope gives exactly 16 IV
\* bytes followed by ciphertext bytes, a positive whole number of blocks of
\* them, for every plaintext, the empty one included.
C16_EnvelopeLayout ==
    cstage = "done" =>
        LET raw == Base64Decode(envelope) IN
        /\ Len(raw) > IVLen
        /\ \A i \in 1..Len(raw) : raw[i].t = (IF i <= IVLen THEN "iv" ELSE "ct")
        /\ (Len(raw) - IVLen) % BlockSize = 0
        /\ Len(raw) - IVLen > Len(plain)

\* the empty plaintext has been enveloped: IV and one block
C16_Witness ==
    /\ cstage = "done"
    /\ plain = <<>>
    /\ Len(Base64Decode(envelope)) = IVLen + BlockSize

====
